---- MODULE Spec2Model ----
(***************************************************************************)
(* State-machine model of hello_opengl.cpp: start-up of the PBR + bloom    *)
(* demo, its render loop (geometry pass, bright-pass, ping-pong blur,      *)
(* composite, present, event poll) and the camera driven by the GLFW       *)
(* callbacks.                                                              *)
(*                                                                         *)
(* Numbers.  Angles (yaw, pitch) are kept in hundredths of a degree, so    *)
(* that the mouse sensitivity 0.18 is the integer 18 per pixel.  The field *)
(* of view is kept in whole degrees.  Time is kept in ticks of 1.5 s: the  *)
(* spin angle currentFrame * radians(60) is then a whole number of quarter *)
(* turns, and cos(currentFrame * walkSpeed) = cos(3 * tick) is tabulated   *)
(* in thousandths.  Matrices hold thousandths.                             *)
(***************************************************************************)
EXTENDS Integers, Sequences, FiniteSets, TLC

(* ------------------------------ bounds -------------------------------- *)
\* largest clock reading (in ticks) glfwGetTime() returns in the model
MaxTick == 1
\* input events the user generates in a run started with any environment
BaseEvents == 1
\* input events the user generates in a run of the input specification
MaxEvents == 3
\* largest blur pass count of the specification that varies the pass count
MaxPasses == 16

(* ------------------------- program constants -------------------------- *)
\* cos(currentFrame * walkSpeed) is tabulated by CosWalkMilli at 1.5 s * walkSpeed = 3 rad per tick
walkSpeed == 2
walkRange == 4
walkAxis == 0
ScaleFactor == 3
blurPassesConfigured == 15
\* 0.18 degrees per pixel, in hundredths of a degree
sensitivity == 18
PitchMax == 8900
PitchMin == -8900
FovMin == 15
FovMax == 90
\* processKeyboard: speed 4.0 units/s over a tick of 1.5 s
speedPerTick == 6

GLFW_KEY_UNKNOWN == -1
GLFW_KEY_A == 65
GLFW_KEY_D == 68
GLFW_KEY_E == 69
GLFW_KEY_Q == 81
GLFW_KEY_S == 83
GLFW_KEY_W == 87
GLFW_KEY_ESCAPE == 256
KeyTableSize == 1024
GLFW_MOUSE_BUTTON_LEFT == 0
GLFW_MOUSE_BUTTON_RIGHT == 1
GLFW_RELEASE == 0
GLFW_PRESS == 1

(* ------------------------------ GL names ------------------------------ *)
\* GL object names are strings; NoName is the GL name 0.
NoName == "0"
WhiteTex == "white1x1"
TextureSlots == <<"albedo", "normal", "metallic", "roughness", "ao">>
TextureFile(slot) == "resources/" \o slot \o ".png"
TextureFiles == {TextureFile(TextureSlots[k]) : k \in 1..5}
ColorBuffer0 == "colorBuffers[0]"
ColorBuffer1 == "colorBuffers[1]"
\* pingpongColorbuffers[k] and pingpongFBO[k], k in {0, 1}
PingpongColorbuffer(k) == IF k = 0 THEN "pingpongColorbuffers[0]" ELSE "pingpongColorbuffers[1]"
PingpongFBO(k) == IF k = 0 THEN "pingpongFBO[0]" ELSE "pingpongFBO[1]"
DefaultFBO == "0"
HdrFBO == "hdrFBO"
Framebuffers == {DefaultFBO, HdrFBO, PingpongFBO(0), PingpongFBO(1)}
Units == 0..4
\* a C++ bool used as an array index
BoolIndex(b) == IF b THEN 1 ELSE 0

(* ---------------------------- environment ----------------------------- *)
\* What the platform answers: which library initialisations succeed, which
\* files decode, whether the shaders build and the framebuffers are complete.
Environments ==
    [glfwInit : BOOLEAN, window : BOOLEAN, glad : BOOLEAN,
     shaders : BOOLEAN, model : BOOLEAN, fbo : BOOLEAN,
     textures : SUBSET TextureFiles]
FatalFree(e) == e.glfwInit /\ e.window /\ e.glad
\* the environments that differ in what the program can observe
ObservableEnvironments ==
    {e \in Environments :
        \/ FatalFree(e)
        \/ /\ e.shaders /\ e.model /\ e.fbo /\ e.textures = TextureFiles
           /\ (~e.glfwInit => e.window /\ e.glad)
           /\ (~e.window => e.glad)}
GoodEnvironment ==
    [glfwInit |-> TRUE, window |-> TRUE, glad |-> TRUE, shaders |-> TRUE,
     model |-> TRUE, fbo |-> TRUE, textures |-> TextureFiles]

VARIABLES
    env,          \* the platform's answers (never changes)
    pc,           \* position of main()
    exitCode,     \* return value of main(), -2 while running
    cerr,         \* kinds of diagnostics written to cerr
    shouldClose,  \* the window's close flag
    keys,         \* key codes k with keys[k] = true
    camera,       \* the global Camera
    lastFrame,    \* global lastFrame, in ticks
    eventsLeft,   \* input events the user will still generate
    mesh,         \* Mesh mesh of main(): vao, count
    tex,          \* texAlbedo .. texAO of main(), by slot
    fboAttach,    \* GL: color attachments of each framebuffer
    boundFBO,     \* GL: framebuffer bound to GL_FRAMEBUFFER
    activeUnit,   \* GL: glActiveTexture
    texUnit,      \* GL: texture bound to GL_TEXTURE_2D of each unit
    model_m,      \* the "model" uniform uploaded by the geometry pass
    horizontal,   \* blur loop: bool horizontal
    blurI,        \* blur loop: int i
    blurPasses,   \* blur loop: int blurPasses
    presented,    \* TRUE once glfwSwapBuffers has presented a frame
    frameLog,     \* the calls of the current loop iteration, in order
    lastInput     \* whether a drag has started and no cursor move has followed
                  \* (pending); whether the last callback was the first cursor
                  \* move after a drag started (first), and yaw/pitch before it

vars == <<env, pc, exitCode, cerr, shouldClose, keys, camera, lastFrame,
          eventsLeft, mesh, tex, fboAttach, boundFBO, activeUnit, texUnit,
          model_m, horizontal, blurI, blurPasses, presented, frameLog, lastInput>>

glVars == <<fboAttach, boundFBO, activeUnit, texUnit>>
inputVars == <<shouldClose, keys, camera, eventsLeft, lastInput>>
blurVars == <<horizontal, blurI, blurPasses>>

(* ------------------------------- camera ------------------------------- *)
\* The direction computed from yaw and pitch (lines 110-114) is kept as the
\* pair of angles it was computed from; {0, 0, -1} is yaw -90, pitch 0.
Direction(yaw, pitch) == [yaw |-> yaw, pitch |-> pitch]
InitialCamera ==
    [pos |-> {}, front |-> Direction(-9000, 0),
     yaw |-> -9000, pitch |-> -1000, fov |-> 45,
     lastX |-> 400, lastY |-> 300, firstMouse |-> TRUE, mouseDown |-> FALSE]

\* mutant of ClampPitch: the lower clamp of line 109 left out
ClampPitchUpperOnly(p) == IF p > PitchMax THEN PitchMax ELSE p
ClampPitch(p) == IF p > PitchMax THEN PitchMax ELSE IF p < PitchMin THEN PitchMin ELSE p

\* Camera::processMouseMove
processMouseMove(cam, xpos, ypos) ==
    IF ~cam.mouseDown
    THEN [cam EXCEPT !.lastX = xpos, !.lastY = ypos]
    ELSE LET xoffset == (xpos - cam.lastX) * sensitivity
             yoffset == (cam.lastY - ypos) * sensitivity
             yaw == cam.yaw + xoffset
             pitch == ClampPitch(cam.pitch + yoffset)
         IN  [cam EXCEPT !.lastX = xpos, !.lastY = ypos,
                         !.yaw = yaw, !.pitch = pitch,
                         !.front = Direction(yaw, pitch)]

\* the body of mouse_button_callback
mouseButton(cam, button, action) ==
    IF button = GLFW_MOUSE_BUTTON_RIGHT
    THEN [cam EXCEPT !.mouseDown = (action = GLFW_PRESS), !.firstMouse = TRUE]
    ELSE cam

ClampFov(f) == IF f < FovMin THEN FovMin ELSE IF f > FovMax THEN FovMax ELSE f

\* the body of scroll_callback
scroll(cam, yoffset) == [cam EXCEPT !.fov = ClampFov(cam.fov - yoffset)]

\* camera.pos is kept as its displacement from {0, 1.5, 10}: a set of pairs
\* <<axis, amount>>, the amount moved along each axis vector that was used.
FrontAxis(cam) == [axis |-> "front", yaw |-> cam.front.yaw, pitch |-> cam.front.pitch]
\* glm::normalize(glm::cross(camera.front, camera.up)) for that front
RightAxis(cam) == [axis |-> "right", yaw |-> cam.front.yaw, pitch |-> cam.front.pitch]
UpAxis == [axis |-> "up", yaw |-> 0, pitch |-> 0]
Along(pos, d) == IF \E p \in pos : p[1] = d THEN (CHOOSE p \in pos : p[1] = d)[2] ELSE 0
Move(pos, d, n) ==
    {p \in pos : p[1] # d} \cup (IF Along(pos, d) + n = 0 THEN {} ELSE {<<d, Along(pos, d) + n>>})
MoveIf(held, key, pos, d, n) == IF key \in held THEN Move(pos, d, n) ELSE pos

\* processKeyboard(dt), dt in ticks
processKeyboard(cam, held, dt) ==
    LET step == speedPerTick * dt
        p1 == MoveIf(held, GLFW_KEY_W, cam.pos, FrontAxis(cam), step)
        p2 == MoveIf(held, GLFW_KEY_S, p1, FrontAxis(cam), -step)
        p3 == MoveIf(held, GLFW_KEY_A, p2, RightAxis(cam), -step)
        p4 == MoveIf(held, GLFW_KEY_D, p3, RightAxis(cam), step)
        p5 == MoveIf(held, GLFW_KEY_Q, p4, UpAxis, -step)
        p6 == MoveIf(held, GLFW_KEY_E, p5, UpAxis, step)
    IN  [cam EXCEPT !.pos = p6]

(* ------------------------------ matrices ------------------------------ *)
\* glm::mat4 as its four columns, entries in thousandths.
VecScale(c, k) == [r \in 1..4 |-> c[r] * k]
VecAdd(a, b) == [r \in 1..4 |-> a[r] + b[r]]
VecMilli(c, k) == [r \in 1..4 |-> (c[r] * k) \div 1000]
Identity == [c \in 1..4 |-> [r \in 1..4 |-> IF r = c THEN 1000 ELSE 0]]
\* glm::scale(m, vec3(k))
glmScale(m, k) == <<VecScale(m[1], k), VecScale(m[2], k), VecScale(m[3], k), m[4]>>
\* glm::translate(m, v), v in thousandths
glmTranslate(m, v) ==
    <<m[1], m[2], m[3],
      VecAdd(VecAdd(VecMilli(m[1], v[1]), VecMilli(m[2], v[2])),
             VecAdd(VecMilli(m[3], v[3]), m[4]))>>
\* cosine and sine of a whole number of quarter turns
QuarterCos(q) == <<1, 0, -1, 0>>[(q % 4) + 1]
QuarterSin(q) == <<0, 1, 0, -1>>[(q % 4) + 1]
\* glm::rotate(m, angle, vec3(0, 1, 0)), angle = q quarter turns
glmRotateY(m, q) ==
    <<VecAdd(VecScale(m[1], QuarterCos(q)), VecScale(m[3], -QuarterSin(q))),
      m[2],
      VecAdd(VecScale(m[1], QuarterSin(q)), VecScale(m[3], QuarterCos(q))),
      m[4]>>
\* 1000 * cos(3 * tick): cos(currentFrame * walkSpeed) at currentFrame = 1.5 s * tick
CosWalkMilli(tick) == <<1000, -990, 960, -911, 844, -760, 660, -548>>[(tick % 8) + 1]
\* float walkPos = cos(currentFrame * walkSpeed) * walkRange, in thousandths
WalkPos(tick) == CosWalkMilli(tick) * walkRange
\* model_m of the frame whose currentFrame is tick (lines 401-412)
ModelMatrix(tick) ==
    glmRotateY(
        glmTranslate(glmScale(Identity, ScaleFactor),
                     <<WalkPos(tick), walkAxis * 1000, 0>>),
        tick)
\* where the model matrix takes the mesh-local origin (0, 0, 0, 1)
OriginWorld(m) == <<m[4][1], m[4][2], m[4][3]>>

(* ------------------------------- Init --------------------------------- *)
NoInput == [pending |-> FALSE, first |-> FALSE, yaw |-> 0, pitch |-> 0]
NoMesh == [vao |-> NoName, count |-> 0]

InitWith(environments, budget, passes) ==
    /\ env \in environments
    /\ pc = "glfwInit"
    /\ exitCode = -2
    /\ cerr = {}
    /\ shouldClose = FALSE
    /\ keys = {}
    /\ camera = InitialCamera
    /\ lastFrame = 0
    /\ eventsLeft = budget
    /\ mesh = NoMesh
    /\ tex = [k \in 1..5 |-> NoName]
    /\ fboAttach = [f \in Framebuffers |-> {}]
    /\ boundFBO = DefaultFBO
    /\ activeUnit = 0
    /\ texUnit = [u \in Units |-> NoName]
    /\ model_m = Identity
    /\ horizontal = TRUE
    /\ blurI = 0
    /\ blurPasses \in passes
    /\ presented = FALSE
    /\ frameLog = <<>>
    /\ lastInput = NoInput

\* every environment, the configured pass count, few input events
Init == InitWith(ObservableEnvironments, BaseEvents, {blurPassesConfigured})

(* ------------------------------ start-up ------------------------------ *)
Exit(code, message) ==
    /\ pc' = "exited"
    /\ exitCode' = code
    /\ cerr' = cerr \cup {message}

\* line 306
GlfwInit ==
    /\ pc = "glfwInit"
    /\ IF env.glfwInit
       THEN pc' = "createWindow" /\ UNCHANGED <<exitCode, cerr>>
       ELSE Exit(-1, "glfw init failed")
    /\ UNCHANGED <<env, inputVars, lastFrame, mesh, tex, glVars, model_m, blurVars, presented, frameLog>>

\* lines 308-314
CreateWindow ==
    /\ pc = "createWindow"
    /\ IF env.window
       THEN pc' = "loadGL" /\ UNCHANGED <<exitCode, cerr>>
       ELSE Exit(-1, "create window failed")
    /\ UNCHANGED <<env, inputVars, lastFrame, mesh, tex, glVars, model_m, blurVars, presented, frameLog>>

\* lines 316-329: make the context current, load GL, enable, set the callbacks
LoadGL ==
    /\ pc = "loadGL"
    /\ IF env.glad
       THEN pc' = "loadShaders" /\ UNCHANGED <<exitCode, cerr>>
       ELSE Exit(-1, "Failed to initialize GLAD")
    /\ UNCHANGED <<env, inputVars, lastFrame, mesh, tex, glVars, model_m, blurVars, presented, frameLog>>

\* lines 331-342: loadShaderText x 6, createProgram x 4; a failure is logged only
LoadShaders ==
    /\ pc = "loadShaders"
    /\ pc' = "loadModel"
    /\ cerr' = IF env.shaders THEN cerr
               ELSE cerr \cup {"Warning: shader empty or not found", "Shader compile error",
                               "Program link error"}
    /\ UNCHANGED <<env, exitCode, inputVars, lastFrame, mesh, tex, glVars, model_m, blurVars, presented, frameLog>>

\* mutant of loadObjToMesh: the vertex array made before the parse result is tested
loadObjToMeshEarlyVao(ok) == [vao |-> "mesh.vao", count |-> IF ok THEN 3 ELSE 0]
\* loadObjToMesh: false before any GL object is made, else vao/vbo/ebo and count
loadObjToMesh(ok) == IF ok THEN [vao |-> "mesh.vao", count |-> 3] ELSE NoMesh

\* mutant of LoadModel: a failed model load ends the process
LoadModelFatal ==
    /\ pc = "loadModel"
    /\ mesh' = loadObjToMesh(env.model)
    /\ IF env.model
       THEN pc' = "loadTextures" /\ UNCHANGED <<exitCode, cerr>>
       ELSE Exit(-1, "Failed to load model.obj")
    /\ UNCHANGED <<env, inputVars, lastFrame, tex, glVars, model_m, blurVars, presented, frameLog>>
\* lines 345-347
LoadModel ==
    /\ pc = "loadModel"
    /\ pc' = "loadTextures"
    /\ mesh' = loadObjToMesh(env.model)
    /\ cerr' = IF env.model THEN cerr ELSE cerr \cup {"Failed to load model.obj"}
    /\ UNCHANGED <<env, exitCode, inputVars, lastFrame, tex, glVars, model_m, blurVars, presented, frameLog>>

\* loadTexture: the new texture's name, or 0 when stbi_load fails
loadTexture(path) == IF path \in env.textures THEN path ELSE NoName
\* lines 350-356: texAlbedo, with the 1x1 white texture made when it is 0
AlbedoOrWhite(loaded) == IF loaded = NoName THEN WhiteTex ELSE loaded
\* lines 350-360
LoadedTextures ==
    [k \in 1..5 |->
        IF k = 1 THEN AlbedoOrWhite(loadTexture(TextureFile(TextureSlots[1])))
        ELSE loadTexture(TextureFile(TextureSlots[k]))]
\* the texture the five loads leave bound to unit 0: the last one created
LastCreated(t) ==
    LET made == {k \in 1..5 : t[k] # NoName}
    IN  t[CHOOSE k \in made : \A j \in made : j <= k]

LoadTextures ==
    /\ pc = "loadTextures"
    /\ pc' = "initFBO"
    /\ tex' = LoadedTextures
    /\ texUnit' = [texUnit EXCEPT ![activeUnit] = LastCreated(LoadedTextures)]
    /\ cerr' = IF env.textures = TextureFiles THEN cerr
               ELSE cerr \cup {"Failed to load texture"}
    /\ UNCHANGED <<env, exitCode, inputVars, lastFrame, mesh, fboAttach, boundFBO, activeUnit,
                   model_m, blurVars, presented, frameLog>>

\* lines 363-379: initQuad, bloomFBO.init, sampler uniforms
InitFBO ==
    /\ pc = "initFBO"
    /\ pc' = "loopTest"
    /\ fboAttach' = [f \in Framebuffers |->
                        IF f = HdrFBO THEN {ColorBuffer0, ColorBuffer1}
                        ELSE IF f = PingpongFBO(0) THEN {PingpongColorbuffer(0)}
                        ELSE IF f = PingpongFBO(1) THEN {PingpongColorbuffer(1)}
                        ELSE {}]
    /\ texUnit' = [texUnit EXCEPT ![activeUnit] = PingpongColorbuffer(1)]
    /\ boundFBO' = DefaultFBO
    /\ cerr' = IF env.fbo THEN cerr
               ELSE cerr \cup {"HDR Framebuffer not complete!", "Pingpong FBO not complete!"}
    /\ UNCHANGED <<env, exitCode, inputVars, lastFrame, mesh, tex, activeUnit,
                   model_m, blurVars, presented, frameLog>>

(* ----------------------------- render loop ---------------------------- *)
\* One entry of frameLog: a call made by the current loop iteration, with the
\* GL bindings and the camera in force when it was made.
Call(name, pass, fbo, units, i, flag) ==
    [call |-> name, pass |-> pass, fbo |-> fbo, units |-> units, i |-> i, flag |-> flag,
     camera |-> camera]
HostCall(name) == Call(name, "none", boundFBO, texUnit, -1, -1)

\* line 383
LoopTest ==
    /\ pc = "loopTest"
    /\ pc' = IF shouldClose THEN "terminate" ELSE "frameBegin"
    /\ frameLog' = IF shouldClose THEN frameLog ELSE <<>>
    /\ UNCHANGED <<env, exitCode, cerr, inputVars, lastFrame, mesh, tex, glVars, model_m,
                   blurVars, presented>>

\* lines 384-388: read the clock, integrate the held keys
FrameBegin ==
    /\ pc = "frameBegin"
    /\ \E currentFrame \in lastFrame..MaxTick :
          /\ camera' = processKeyboard(camera, keys, currentFrame - lastFrame)
          /\ lastFrame' = currentFrame
    /\ frameLog' = Append(frameLog, [HostCall("processKeyboard") EXCEPT !.camera = camera'])
    /\ pc' = "geometry"
    /\ UNCHANGED <<env, exitCode, cerr, shouldClose, keys, eventsLeft, lastInput, mesh, tex,
                   glVars, model_m, blurVars, presented>>

\* lines 431-435: the texture bound to unit u for the geometry pass
GeometryTexture(u) ==
    IF u = 0 THEN tex[1]
    ELSE IF tex[u + 1] # NoName THEN tex[u + 1] ELSE tex[1]
GeometryUnits == [u \in Units |-> GeometryTexture(u)]

\* lines 437-441: the draw calls of the geometry pass
GeometryDraws ==
    IF mesh.vao # NoName
    THEN <<Call("glDrawElements", "geometry", HdrFBO, GeometryUnits, -1, -1)>>
    ELSE <<>>

\* lines 390-446
GeometryPass ==
    /\ pc = "geometry"
    /\ frameLog' = Append(frameLog, Call("glClear", "geometry", HdrFBO, texUnit, -1, -1))
                     \o GeometryDraws
    /\ model_m' = ModelMatrix(lastFrame)
    /\ texUnit' = GeometryUnits
    /\ activeUnit' = 4
    /\ boundFBO' = DefaultFBO
    /\ pc' = "bright"
    /\ UNCHANGED <<env, exitCode, cerr, inputVars, lastFrame, mesh, tex, fboAttach,
                   blurVars, presented>>

\* lines 448-457
BrightPass ==
    /\ pc = "bright"
    /\ LET units == [texUnit EXCEPT ![0] = ColorBuffer1]
       IN  /\ frameLog' = frameLog \o
                  <<Call("glClear", "bright", PingpongFBO(0), texUnit, -1, -1),
                    Call("glDrawArrays", "bright", PingpongFBO(0), units, -1, -1)>>
           /\ texUnit' = units
    /\ activeUnit' = 0
    /\ boundFBO' = DefaultFBO
    /\ pc' = "blur"
    /\ UNCHANGED <<env, exitCode, cerr, inputVars, lastFrame, mesh, tex, fboAttach,
                   model_m, blurVars, presented>>

\* mutant of BlurTarget: the iteration draws into the surface it reads
BlurTargetOther(h) == PingpongFBO(BoolIndex(~h))
\* line 464: the framebuffer an iteration draws into
BlurTarget(h) == PingpongFBO(BoolIndex(h))
\* mutant of BlurSource: the negation of line 468 left out
BlurSourceSame(i, h) ==
    IF i = 0 THEN PingpongColorbuffer(0) ELSE PingpongColorbuffer(BoolIndex(h))
\* lines 467-468: the texture an iteration reads
BlurSource(i, h) ==
    IF i = 0 THEN PingpongColorbuffer(0) ELSE PingpongColorbuffer(BoolIndex(~h))

\* lines 463-473: the loop from iteration i on, with flag h and texture units
\* units; gives the loop's variables and GL bindings at its exit and its calls
RECURSIVE BlurRun(_, _, _, _, _)
BlurRun(i, h, units, fbo, calls) ==
    IF i < blurPasses
    THEN LET bound == [units EXCEPT ![0] = BlurSource(i, h)]
         IN  BlurRun(i + 1, ~h, bound, BlurTarget(h),
                     Append(calls, Call("glDrawArrays", "blur", BlurTarget(h), bound, i,
                                        BoolIndex(h))))
    ELSE [i |-> i, horizontal |-> h, units |-> units, fbo |-> fbo, calls |-> calls]

\* mutant of BlurLoop: line 459 left out, the flag carried over from the last frame
BlurLoopStale ==
    /\ pc = "blur"
    /\ LET done == BlurRun(0, horizontal, texUnit, boundFBO, <<>>)
       IN  /\ horizontal' = done.horizontal
           /\ blurI' = done.i
           /\ texUnit' = done.units
           /\ boundFBO' = done.fbo
           /\ frameLog' = frameLog \o done.calls
    /\ activeUnit' = 0
    /\ pc' = "composite"
    /\ UNCHANGED <<env, exitCode, cerr, inputVars, lastFrame, mesh, tex, fboAttach,
                   model_m, blurPasses, presented>>
\* lines 459-473: bool horizontal = true, then the blur loop
BlurLoop ==
    /\ pc = "blur"
    /\ LET done == BlurRun(0, TRUE, texUnit, boundFBO, <<>>)
       IN  /\ horizontal' = done.horizontal
           /\ blurI' = done.i
           /\ texUnit' = done.units
           /\ boundFBO' = done.fbo
           /\ frameLog' = frameLog \o done.calls
    /\ activeUnit' = 0
    /\ pc' = "composite"
    /\ UNCHANGED <<env, exitCode, cerr, inputVars, lastFrame, mesh, tex, fboAttach,
                   model_m, blurPasses, presented>>

\* mutant of CompositeBloom: the negation of line 483 left out
CompositeBloomFlag(h) == PingpongColorbuffer(BoolIndex(h))
\* line 483: the blur surface the composite binds to unit 1
CompositeBloom(h) == PingpongColorbuffer(BoolIndex(~h))

\* lines 474-487
Composite ==
    /\ pc = "composite"
    /\ LET units == [texUnit EXCEPT ![0] = ColorBuffer0, ![1] = CompositeBloom(horizontal)]
       IN  /\ frameLog' = frameLog \o
                  <<Call("glClear", "composite", DefaultFBO, texUnit, -1, -1),
                    Call("glDrawArrays", "composite", DefaultFBO, units, -1, -1)>>
           /\ texUnit' = units
    /\ boundFBO' = DefaultFBO
    /\ activeUnit' = 1
    /\ pc' = "swap"
    /\ UNCHANGED <<env, exitCode, cerr, inputVars, lastFrame, mesh, tex, fboAttach,
                   model_m, blurVars, presented>>

\* mutant of SwapBuffers: the iteration ends at the present, without the poll
SwapBuffersSkipPoll ==
    /\ pc = "swap"
    /\ frameLog' = Append(frameLog, HostCall("glfwSwapBuffers"))
    /\ presented' = TRUE
    /\ pc' = "loopTest"
    /\ UNCHANGED <<env, exitCode, cerr, inputVars, lastFrame, mesh, tex, glVars,
                   model_m, blurVars>>
\* line 490
SwapBuffers ==
    /\ pc = "swap"
    /\ frameLog' = Append(frameLog, HostCall("glfwSwapBuffers"))
    /\ presented' = TRUE
    /\ pc' = "pollEvents"
    /\ UNCHANGED <<env, exitCode, cerr, inputVars, lastFrame, mesh, tex, glVars,
                   model_m, blurVars>>

\* line 491: glfwPollEvents is entered; it dispatches the pending callbacks
PollEvents ==
    /\ pc = "pollEvents"
    /\ frameLog' = Append(frameLog, HostCall("glfwPollEvents"))
    /\ pc' = "dispatch"
    /\ UNCHANGED <<env, exitCode, cerr, inputVars, lastFrame, mesh, tex, glVars,
                   model_m, blurVars, presented>>

(* ------------------------------ callbacks ----------------------------- *)
\* the keys, buttons, cursor positions and scroll offsets the user's events carry
KeyInputs == {GLFW_KEY_W, GLFW_KEY_A, GLFW_KEY_E, GLFW_KEY_ESCAPE, GLFW_KEY_UNKNOWN}
KeyActions == {GLFW_PRESS, GLFW_RELEASE}
ButtonInputs == {GLFW_MOUSE_BUTTON_LEFT, GLFW_MOUSE_BUTTON_RIGHT}
CursorXs == {500}
CursorYs == {0, 300, 1000}
ScrollYs == {-50, 1, 50}

\* mutant of Dispatching: callbacks delivered while the frame is being drawn too
DispatchingAsync == pc \in {"dispatch", "composite"} /\ eventsLeft > 0
\* line 491: callbacks run only inside glfwPollEvents
Dispatching == pc = "dispatch" /\ eventsLeft > 0
\* what lastInput records of a callback that is not a cursor move
Input(pending) == [NoInput EXCEPT !.pending = pending]
frameVars == <<env, pc, exitCode, cerr, lastFrame, mesh, tex, glVars, model_m, blurVars,
               presented, frameLog>>

\* lines 227-231: the keys table after key_callback
keyTable(held, key, action) ==
    IF key >= 0 /\ key < KeyTableSize
    THEN IF action = GLFW_PRESS THEN held \cup {key}
         ELSE IF action = GLFW_RELEASE THEN held \ {key} ELSE held
    ELSE held

\* key_callback
KeyCallback ==
    /\ Dispatching
    /\ \E key \in KeyInputs, action \in KeyActions :
          /\ shouldClose' = (shouldClose \/ (key = GLFW_KEY_ESCAPE /\ action = GLFW_PRESS))
          /\ keys' = keyTable(keys, key, action)
    /\ eventsLeft' = eventsLeft - 1
    /\ lastInput' = Input(lastInput.pending)
    /\ UNCHANGED <<frameVars, camera>>

\* mouse_button_callback
MouseButtonCallback ==
    /\ Dispatching
    /\ \E button \in ButtonInputs, action \in KeyActions :
          /\ camera' = mouseButton(camera, button, action)
          /\ lastInput' = Input(lastInput.pending \/ (~camera.mouseDown /\ camera'.mouseDown))
    /\ eventsLeft' = eventsLeft - 1
    /\ UNCHANGED <<frameVars, shouldClose, keys>>

\* cursor_callback
CursorCallback ==
    /\ Dispatching
    /\ \E xpos \in CursorXs, ypos \in CursorYs :
          camera' = processMouseMove(camera, xpos, ypos)
    /\ lastInput' = IF lastInput.pending
                    THEN [pending |-> FALSE, first |-> TRUE,
                          yaw |-> camera.yaw, pitch |-> camera.pitch]
                    ELSE NoInput
    /\ eventsLeft' = eventsLeft - 1
    /\ UNCHANGED <<frameVars, shouldClose, keys>>

\* scroll_callback
ScrollCallback ==
    /\ Dispatching
    /\ \E yoffset \in ScrollYs : camera' = scroll(camera, yoffset)
    /\ lastInput' = Input(lastInput.pending)
    /\ eventsLeft' = eventsLeft - 1
    /\ UNCHANGED <<frameVars, shouldClose, keys>>

\* line 491: the window's close button sets the close flag during the poll
CloseRequest ==
    /\ Dispatching
    /\ shouldClose' = TRUE
    /\ lastInput' = Input(lastInput.pending)
    /\ eventsLeft' = eventsLeft - 1
    /\ UNCHANGED <<frameVars, keys, camera>>

\* line 491: glfwPollEvents returns
PollReturn ==
    /\ pc = "dispatch"
    /\ pc' = "loopTest"
    /\ UNCHANGED <<env, exitCode, cerr, inputVars, lastFrame, mesh, tex, glVars, model_m,
                   blurVars, presented, frameLog>>

\* lines 494-495
Terminate ==
    /\ pc = "terminate"
    /\ pc' = "exited"
    /\ exitCode' = 0
    /\ UNCHANGED <<env, cerr, inputVars, lastFrame, mesh, tex, glVars, model_m,
                   blurVars, presented, frameLog>>

Next ==
    \/ GlfwInit \/ CreateWindow \/ LoadGL \/ LoadShaders \/ LoadModel \/ LoadTextures
    \/ InitFBO
    \/ LoopTest \/ FrameBegin \/ GeometryPass \/ BrightPass \/ BlurLoop
    \/ Composite \/ SwapBuffers \/ PollEvents
    \/ KeyCallback \/ MouseButtonCallback \/ CursorCallback \/ ScrollCallback
    \/ CloseRequest \/ PollReturn \/ Terminate

Spec == Init /\ [][Next]_vars

\* the environment in which everything loads, many input events
InitInput == InitWith({GoodEnvironment}, MaxEvents, {blurPassesConfigured})
SpecInput == InitInput /\ [][Next]_vars

\* the environment in which everything loads, every blur pass count
InitPasses == InitWith({GoodEnvironment}, BaseEvents, 1..MaxPasses)
SpecPasses == InitPasses /\ [][Next]_vars

(* ------------------------- reading the frame log ---------------------- *)
IsClear(e) == e.call = "glClear"
IsDraw(e) == e.call \in {"glDrawElements", "glDrawArrays"}
IsGeometryClear(e) == e.pass = "geometry" /\ e.call = "glClear"
IsGeometryDraw(e) == e.pass = "geometry" /\ e.call = "glDrawElements"
IsBrightDraw(e) == e.pass = "bright" /\ e.call = "glDrawArrays"
IsBlurDraw(e) == e.pass = "blur" /\ e.call = "glDrawArrays"
IsCompositeDraw(e) == e.pass = "composite" /\ e.call = "glDrawArrays"
IsSwap(e) == e.call = "glfwSwapBuffers"
GeometryClears == SelectSeq(frameLog, IsGeometryClear)
GeometryDrawCalls == SelectSeq(frameLog, IsGeometryDraw)
BrightDraws == SelectSeq(frameLog, IsBrightDraw)
BlurDraws == SelectSeq(frameLog, IsBlurDraw)
CompositeDraws == SelectSeq(frameLog, IsCompositeDraw)
Swaps == SelectSeq(frameLog, IsSwap)
\* the surfaces a call writes, and the textures bound to some unit when it is made
Written(e) == fboAttach[e.fbo]
BoundTextures(e) == {e.units[u] : u \in Units}
Feedback(e) == Written(e) \cap BoundTextures(e)

(* ------------------------------- claims ------------------------------- *)

\* C1: the first cursor move after a right-button press that started a drag
\* leaves yaw and pitch as they were before that move.
JumpSuppressed ==
    lastInput.first =>
        (camera.yaw = lastInput.yaw /\ camera.pitch = lastInput.pitch)

\* C2: the texture the composite draw has on unit 1 is the surface the last blur
\* iteration wrote: pingpongColorbuffers[1] for an odd pass count,
\* pingpongColorbuffers[0] for an even one.
CompositeReadsLastBlur ==
    LET blur == BlurDraws
        composite == CompositeDraws
    IN  \A k \in 1..Len(composite) :
            /\ Len(blur) = blurPasses
            /\ blurPasses >= 1
            /\ Written(blur[Len(blur)]) = {composite[k].units[1]}
            /\ composite[k].units[1] =
                  PingpongColorbuffer(IF blurPasses % 2 = 1 THEN 1 ELSE 0)
CompositeDrawnConfigured ==
    /\ pc = "swap"
    /\ blurPasses = blurPassesConfigured
    /\ Len(CompositeDraws) = 1
    /\ CompositeDraws[1].units[1] = PingpongColorbuffer(1)

\* C3: once the geometry pass has bound its textures, every slot whose file did
\* not load has the 1x1 white texture on its unit.
MissingTextureIsWhite ==
    pc = "bright" =>
        \A k \in 1..5 :
            TextureFile(TextureSlots[k]) \notin env.textures => texUnit[k - 1] = WhiteTex

\* C4: the model matrix takes the mesh-local origin to (walkPos, 0, 0).
OriginAtWalkPos ==
    pc = "bright" => OriginWorld(model_m) = <<WalkPos(lastFrame), 0, 0>>

\* C5 as stated: blur iteration 0 reads the surface the bright-pass of the frame
\* wrote, and iteration i > 0 reads the surface iteration i-1 did not write.
BlurReadsUnwritten ==
    LET blur == BlurDraws
        bright == BrightDraws
    IN  \A i \in 1..Len(blur) :
            IF i = 1
            THEN /\ Len(bright) = 1
                 /\ Written(bright[1]) = {blur[1].units[0]}
            ELSE blur[i].units[0] \notin Written(blur[i - 1])
\* C5 as amended: blur iteration 0 reads the surface the bright-pass of the frame
\* wrote (pingpongColorbuffers[0]), and iteration i > 0 reads the surface
\* iteration i-1 wrote, which is not the surface iteration i writes.
BlurReadsPrevious ==
    LET blur == BlurDraws
        bright == BrightDraws
    IN  \A i \in 1..Len(blur) :
            IF i = 1
            THEN /\ Len(bright) = 1
                 /\ Written(bright[1]) = {blur[1].units[0]}
                 /\ blur[1].units[0] = PingpongColorbuffer(0)
            ELSE /\ Written(blur[i - 1]) = {blur[i].units[0]}
                 /\ blur[i].units[0] \notin Written(blur[i])
BlurLoopDone == pc = "composite" /\ Len(BlurDraws) = blurPassesConfigured

\* the step of the loop iteration a logged call belongs to
StepOf(e) ==
    IF e.call = "processKeyboard" THEN "integrate"
    ELSE IF e.call = "glfwSwapBuffers" THEN "present"
    ELSE IF e.call = "glfwPollEvents" THEN "poll"
    ELSE e.pass
\* the place of a step in an order of the seven steps
Place(order, step) == CHOOSE k \in 1..7 : order[k] = step
\* the calls of the current iteration go through the steps of order, starting
\* at its first step and leaving none out
FollowsOrder(order) ==
    /\ frameLog # <<>> => Place(order, StepOf(frameLog[1])) = 1
    /\ \A k \in 1..(Len(frameLog) - 1) :
          LET here == Place(order, StepOf(frameLog[k]))
              next == Place(order, StepOf(frameLog[k + 1]))
          IN  next = here \/ next = here + 1
IterationDone ==
    \/ pc \in {"dispatch", "terminate"}
    \/ pc = "loopTest" /\ presented
    \/ pc = "exited" /\ exitCode = 0

\* C6 as stated: the steps of an iteration are poll, integrate, geometry,
\* bright, blur, composite, present, in this order.
PollFirstOrder ==
    FollowsOrder(<<"poll", "integrate", "geometry", "bright", "blur", "composite",
                   "present">>)
\* C6 as amended: the steps of an iteration are integrate, geometry, bright,
\* blur, composite, present, poll, in this order, and a finished iteration has
\* made all of them.
IterationOrder ==
    /\ FollowsOrder(<<"integrate", "geometry", "bright", "blur", "composite", "present",
                      "poll">>)
    /\ IterationDone => (frameLog # <<>> /\ StepOf(frameLog[Len(frameLog)]) = "poll")
SecondIterationPolled == pc = "dispatch" /\ presented /\ eventsLeft = 0

\* C7 as stated: at no clear and at no draw call is a surface of the bound
\* framebuffer bound to a texture unit.
NoSelfFeedback ==
    \A k \in 1..Len(frameLog) :
        (IsClear(frameLog[k]) \/ IsDraw(frameLog[k])) => Feedback(frameLog[k]) = {}
\* C7 as amended: no draw call and no clear has a surface of the bound
\* framebuffer on a texture unit, except the geometry-pass clear of the frames
\* after the first, where colorBuffers[0] is still on unit 0 from the composite.
NoSelfFeedbackAtDraws ==
    \A k \in 1..Len(frameLog) :
        LET e == frameLog[k]
        IN  /\ IsDraw(e) => Feedback(e) = {}
            /\ (IsClear(e) /\ ~IsGeometryClear(e)) => Feedback(e) = {}
            /\ (IsGeometryClear(e) /\ Feedback(e) # {}) =>
                  /\ Feedback(e) = {ColorBuffer0}
                  /\ {u \in Units : e.units[u] = ColorBuffer0} = {0}
            /\ ~presented => Feedback(e) = {}
            /\ (IsGeometryClear(e) /\ presented /\ pc \in {"bright", "blur", "composite", "swap"})
                  => Feedback(e) = {ColorBuffer0}
SecondFrameDrawn ==
    /\ pc = "swap"
    /\ presented
    /\ Len(GeometryDrawCalls) = 1
    /\ Feedback(GeometryClears[1]) = {ColorBuffer0}

\* C8: pitch stays in [-89, 89] degrees and the field of view in [15, 90].
CameraBounds ==
    /\ camera.pitch >= PitchMin /\ camera.pitch <= PitchMax
    /\ camera.fov >= FovMin /\ camera.fov <= FovMax
ClampsReached ==
    /\ camera.mouseDown
    /\ camera.lastY = 1000
    /\ camera.pitch = PitchMin
    /\ camera.fov = FovMax

\* C9: main returns non-zero, before any frame, exactly when glfwInit,
\* glfwCreateWindow or gladLoadGLLoader fails; with these three succeeding no
\* other failure stops start-up, and main returns only 0 and only after a frame.
StartupPcs == {"glfwInit", "createWindow", "loadGL", "loadShaders", "loadModel",
               "loadTextures", "initFBO"}
ExitOnlyOnFatal ==
    /\ ~FatalFree(env) =>
          /\ pc \in {"glfwInit", "createWindow", "loadGL", "exited"}
          /\ pc = "exited" => exitCode # 0
          /\ ~presented /\ frameLog = <<>>
    /\ FatalFree(env) =>
          /\ pc = "exited" => (exitCode = 0 /\ presented)
          /\ pc \in StartupPcs => ENABLED Next
          /\ pc = "loopTest" /\ ~presented => ENABLED Next /\ ~shouldClose
DegradedInLoop ==
    /\ pc = "frameBegin"
    /\ ~env.shaders /\ ~env.model /\ ~env.fbo /\ env.textures = {}

BlurAxisAlternates ==
    LET blurs == BlurDraws
    IN  /\ \A k \in 1..Len(blurs) :
              /\ blurs[k].i = k - 1
              /\ blurs[k].flag = (IF blurs[k].i % 2 = 0 THEN 1 ELSE 0)
              /\ blurs[k].fbo = PingpongFBO(blurs[k].flag)
        /\ pc \in {"composite", "swap", "pollEvents"} => Len(blurs) = blurPasses
\* a frame after the first has run its whole blur loop, and the loop of the
\* frame before it ended with the flag false (odd pass count)
SecondFrameBlurred ==
    /\ presented
    /\ pc = "composite"
    /\ blurPasses = blurPassesConfigured
    /\ ~horizontal
    /\ Len(BlurDraws) = blurPasses

(* C12: the camera is changed only by steps of processKeyboard and of the
   input callbacks, and none of them runs between the start of a frame's
   geometry pass and the return of that frame's glfwSwapBuffers: every call
   of the frame from the geometry clear to the present, and the state after
   each of these passes, has the camera the geometry pass read. *)
CameraChangedBy ==
    camera' # camera =>
        \/ FrameBegin
        \/ KeyCallback \/ MouseButtonCallback \/ CursorCallback \/ ScrollCallback
CameraHeldWhileRendering ==
    LET clears == GeometryClears
    IN  Len(clears) > 0 =>
            /\ \A k \in 1..Len(frameLog) :
                  frameLog[k].call # "processKeyboard" =>
                      frameLog[k].camera = clears[1].camera
            /\ pc \in {"bright", "blur", "composite", "swap", "pollEvents"} =>
                  camera = clears[1].camera
CameraReadOnlyWhileRendering ==
    /\ []CameraHeldWhileRendering
    /\ [][CameraChangedBy]_vars
\* a frame was drawn and presented with a camera that a drag, a scroll and a
\* held key have all changed
MovedCameraPresented ==
    /\ pc = "pollEvents"
    /\ Len(GeometryClears) = 1
    /\ Len(Swaps) = 1
    /\ camera.fov # InitialCamera.fov
    /\ camera.pos # InitialCamera.pos
    /\ Swaps[1].camera = camera

====
